---- MODULE Spec2Model ----
(***************************************************************************)
(* Model of the research assistant chatbot: the MemoryManager (sliding     *)
(* window of messages plus rolling summary), the text helpers it renders   *)
(* and counts with, and the Chatbot's ask chain.                           *)
(*                                                                         *)
(* A text is a sequence of atoms.  The atoms " " and "\n" are whitespace,  *)
(* every other atom is a piece of a word without whitespace in it, so      *)
(* str.split() sees a word in every maximal run of non-whitespace atoms.   *)
(***************************************************************************)
EXTENDS Integers, Sequences, FiniteSets, TLC

\* ------------------------------------------------------------------ bounds
MaxWindow == 2      \* window_size is drawn from 1..MaxWindow
MaxTurns == 3       \* add_turn calls per run
MaxSummaries == 2   \* update_summary calls in which the LLM answers
MaxChunks == 2      \* chunks one retrieval returns
MaxPubs == 2        \* publications in one ingest_publications call
MaxLines == 3       \* lines read by one run_cli session

\* ------------------------------------------------------------------ inputs
\* token_limit values: 2500 is the default and the value main.py passes; the
\* small ones make the trimming loop of update_summary run.
TokenLimits == {7, 16, 25, 2500}

UserMessages == { <<"a">>, <<"a", " ", "b">> }
AssistantMessages == { <<"x">> }
\* What the summarization LLM may answer (before .strip()).
SummaryResponses == { <<"s">>, <<" ", "s", " ", "t", "\n">>, <<" ">> }
\* What the chat LLM may answer.
ChatResponses == { <<"x", " ", "y">> }
ChunkContents == { <<"c">>, <<"d">> }
\* top_k of RAGPipeline.query: 5 is the default and what the Chatbot passes
TopKs == {1, 5}
QueryTexts == { <<"a">> }

\* ------------------------------------------------------------ text helpers
Min(a, b) == IF a < b THEN a ELSE b

IsSpace(c) == c \in {" ", "\n"}

\* len(text.split())
WordCount(text) ==
    Cardinality({ i \in 1..Len(text) :
                    ~IsSpace(text[i]) /\ (i = 1 \/ IsSpace(text[i - 1])) })

\* count_tokens: tiktoken knows no encoding for the gemini / llama model
\* names this program uses, so encoding_for_model raises and the except
\* branch computes int(len(text.split()) * 1.3).
count_tokens(text) == (WordCount(text) * 13) \div 10

RECURSIVE LStrip(_)
LStrip(t) == IF t # <<>> /\ IsSpace(Head(t)) THEN LStrip(Tail(t)) ELSE t

RECURSIVE RStrip(_)
RStrip(t) ==
    IF t # <<>> /\ IsSpace(t[Len(t)]) THEN RStrip(SubSeq(t, 1, Len(t) - 1)) ELSE t

\* str.strip()
Strip(t) == RStrip(LStrip(t))

DigitAtoms == <<"0", "1", "2", "3", "4", "5", "6", "7", "8", "9">>

\* str(n) for a natural number n, as used by the f-strings
RECURSIVE Dec(_)
Dec(n) == IF n < 10 THEN <<DigitAtoms[n + 1]>>
          ELSE Dec(n \div 10) \o <<DigitAtoms[(n % 10) + 1]>>

\* sep.join(parts)
RECURSIVE Join(_, _)
Join(sep, parts) ==
    IF parts = <<>> THEN <<>>
    ELSE IF Len(parts) = 1 THEN parts[1]
    ELSE parts[1] \o sep \o Join(sep, Tail(parts))

\* ---------------------------------------------------------------- messages
\* add_turn stores plain dicts {"role": ..., "content": ...}
DictMessage(role, content) == [type |-> "dict", role |-> role, content |-> content]

\* str(msg) of such a dict
DictRepr(m) ==
    <<"{'role':", " ", "'", m.role, "',", " ", "'content':", " ", "'">>
        \o m.content \o <<"'}">>

\* getattr(msg, 'content', str(msg)): a dict has keys, not attributes
ContentOrStr(m) == IF m.type = "dict" THEN DictRepr(m) ELSE m.content

SeparatorLine == [i \in 1..80 |-> "="]

\* The blocks messages_to_string appends for messages[i], given the number
\* of HumanMessages before it.
MessageBlocks(m, i, humans_before) ==
    IF m.type = "SystemMessage" THEN << <<"SYSTEM:", " ">> \o m.content >>
    ELSE IF m.type = "HumanMessage" THEN
        (IF i > 1 THEN <<SeparatorLine>> ELSE <<>>)
            \o << <<"USER", " ", "Q">> \o Dec(humans_before + 1)
                    \o <<":", " ">> \o m.content >>
    ELSE IF m.type = "AIMessage" THEN << <<"ASSISTANT:", " ">> \o m.content >>
    ELSE << <<"UNKNOWN", " ", "(", m.type, "):", " ">> \o ContentOrStr(m) >>

HumansBefore(messages, i) ==
    Cardinality({ j \in 1..(i - 1) : messages[j].type = "HumanMessage" })

RECURSIVE BlocksFrom(_, _)
BlocksFrom(messages, i) ==
    IF i > Len(messages) THEN <<>>
    ELSE MessageBlocks(messages[i], i, HumansBefore(messages, i))
            \o BlocksFrom(messages, i + 1)

\* the `content` list messages_to_string builds
TranscriptBlocks(messages) == BlocksFrom(messages, 1)

messages_to_string(messages) == Join(<<"\n", "\n">>, TranscriptBlocks(messages))

\* ------------------------------------------------------------------- state
VARIABLES
    window_size,    \* MemoryManager(window_size=...)
    token_limit,    \* self.token_limit
    history,        \* self.history: deque(maxlen = 2 * window_size) of dicts
    summary,        \* self.summary: text
    system_prompt,  \* Chatbot.system_prompt
    log,            \* the (user, assistant) pairs given to add_turn, in call
                    \* order, kept while update_summary has not been called
    pure,           \* no update_summary call so far
    nTurns,         \* add_turn calls so far
    nSummaries,     \* update_summary calls so far in which the LLM answered
    last,           \* what the last call did and returned
    store,          \* the records of the Chroma collection of VectorDatabase
    app,            \* what the last pipeline / start-up call did and returned
    cli,            \* the interactive loop of run_cli
    boot            \* the Chatbot object: whether it is constructed, and
                    \* the system prompt its constructor built

memVars == <<window_size, token_limit, history, summary, system_prompt,
             log, pure, nTurns, nSummaries>>

vars == <<window_size, token_limit, history, summary, system_prompt,
          log, pure, nTurns, nSummaries, last, store, app, cli, boot>>

NoCall ==
    [op |-> "none", raised |-> FALSE, ret_none |-> TRUE, ret |-> <<>>,
     llm_calls |-> 0, entry_history |-> <<>>, entry_summary |-> <<>>,
     trimmed |-> <<>>, sent |-> <<>>, query |-> <<>>, retrieved |-> <<>>,
     retrievals |-> 0, context |-> <<>>,
     retrieval_failed |-> FALSE, generation_failed |-> FALSE]

\* ----------------------------------------------------------- MemoryManager
\* A deque that refuses the new item when it is full.
DequeAppendDropNew(d, x, maxlen) ==
    IF Len(d) >= maxlen THEN d ELSE Append(d, x)

\* deque.append on a deque(maxlen=maxlen): a full deque drops its leftmost
\* item; a deque of maxlen 0 keeps nothing.
DequeAppend(d, x, maxlen) ==
    IF maxlen = 0 THEN d
    ELSE IF Len(d) >= maxlen THEN Tail(d) \o <<x>>
    ELSE Append(d, x)

MaxLen == 2 * window_size

\* MemoryManager.add_turn
HistoryAfterTurn(h, user_message, assistant_response) ==
    DequeAppend(
        DequeAppend(h, DictMessage("user", user_message), MaxLen),
        DictMessage("assistant", assistant_response), MaxLen)

add_turn(user_message, assistant_response) ==
    /\ nTurns < MaxTurns
    /\ history' = HistoryAfterTurn(history, user_message, assistant_response)
    /\ log' = IF pure THEN Append(log, <<user_message, assistant_response>>)
              ELSE log
    /\ nTurns' = nTurns + 1
    /\ last' = [NoCall EXCEPT !.op = "add_turn",
                              !.entry_history = history,
                              !.entry_summary = summary]
    /\ UNCHANGED <<window_size, token_limit, summary, system_prompt, pure,
                   nSummaries>>

\* A trimming loop that evicts a whole turn pair per step.
RECURSIVE TrimLoopPairs(_, _)
TrimLoopPairs(h, limit) ==
    IF count_tokens(messages_to_string(h)) > limit /\ Len(h) > 2
    THEN TrimLoopPairs(SubSeq(h, 3, Len(h)), limit)
    ELSE h

\* The while loop of update_summary: popleft while the transcript is over
\* the limit and more than 2 messages are left.
RECURSIVE TrimLoop(_, _)
TrimLoop(h, limit) ==
    IF count_tokens(messages_to_string(h)) > limit /\ Len(h) > 2
    THEN TrimLoop(Tail(h), limit)
    ELSE h

\* lines 61-69: the history when the trimming step is over
TrimHistory(h, limit) ==
    IF count_tokens(messages_to_string(h)) > limit THEN TrimLoop(h, limit) ELSE h

\* A skip test that also skips a single remaining pair.
SkipWhenOnePair(h) == Len(h) <= 2

\* line 72: `if not self.history: return None`
SkipSummarization(h) == h = <<>>

\* A summary that is overwritten instead of extended.
OverwriteSummary(old, new_summary) == <<"\n">> \o new_summary \o <<"\n">>

\* line 87: self.summary += f"\n{new_summary}\n"
ExtendSummary(old, new_summary) == old \o <<"\n">> \o new_summary \o <<"\n">>

\* A summarization that forgets to clear the window.
KeepHistory(h) == h

\* line 88: self.history.clear()
ClearHistory(h) == <<>>

\* MemoryManager.update_summary; the LLM either answers or raises.
update_summary ==
    LET trimmed == TrimHistory(history, token_limit)
        text_to_summarize == messages_to_string(trimmed)
        call == [NoCall EXCEPT !.op = "update_summary",
                               !.entry_history = history,
                               !.entry_summary = summary,
                               !.trimmed = trimmed]
    IN  /\ pure' = FALSE
        /\ log' = <<>>
        /\ UNCHANGED <<window_size, token_limit, system_prompt, nTurns>>
        /\ IF SkipSummarization(trimmed)
           THEN /\ history' = trimmed
                /\ last' = call
                /\ UNCHANGED <<summary, nSummaries>>
           ELSE \/ \* llm.invoke raises: the exception leaves update_summary
                   /\ history' = trimmed
                   /\ last' = [call EXCEPT !.raised = TRUE, !.llm_calls = 1,
                                           !.sent = text_to_summarize]
                   /\ UNCHANGED <<summary, nSummaries>>
                \/ \E content \in SummaryResponses :
                     LET new_summary == Strip(content)
                     IN  /\ nSummaries < MaxSummaries
                         /\ summary' = ExtendSummary(summary, new_summary)
                         /\ history' = ClearHistory(trimmed)
                         /\ nSummaries' = nSummaries + 1
                         /\ last' = [call EXCEPT !.llm_calls = 1,
                                                 !.sent = text_to_summarize,
                                                 !.ret_none = FALSE,
                                                 !.ret = new_summary]

\* MemoryManager.get_combined_context
get_combined_context(sum, h) ==
    <<"Conversation", " ", "Summary:", "\n">>
        \o (IF sum = <<>> THEN <<"No", " ", "summary", " ", "yet.">> ELSE sum)
        \o <<"\n", "\n", "Recent", " ", "Conversation:", "\n">>
        \o messages_to_string(h)

\* ----------------------------------------------------------------- Chatbot
\* A result of RAGPipeline.query: {"content", "metadata", "similarity"}
RetrievedChunk(content) ==
    [content |-> content, metadata |-> <<"{}">>, similarity |-> <<"None">>]

\* What self.rag.query(query, top_k=5) may return: up to MaxChunks distinct
\* chunks, in any order.
RetrievalResults ==
    { r \in UNION { [1..n -> {RetrievedChunk(c) : c \in ChunkContents}] :
                        n \in 0..MaxChunks } :
        \A i, j \in 1..Len(r) : i # j => r[i] # r[j] }

\* str(chunk) of such a dict
ChunkRepr(chunk) ==
    <<"{'content':", " ", "'">> \o chunk.content
        \o <<"',", " ", "'metadata':", " ">> \o chunk.metadata
        \o <<",", " ", "'similarity':", " ">> \o chunk.similarity \o <<"}">>

\* f"Chunk {i + 1}:\n{chunk}" for the chunk at (1-based) position i
ChunkBlock(i, chunk) == <<"Chunk", " ">> \o Dec(i) \o <<":", "\n">> \o ChunkRepr(chunk)

\* the format_context step: "\n\n".join(... for i, chunk in enumerate(context))
format_context(context) ==
    Join(<<"\n", "\n">>, [i \in 1..Len(context) |-> ChunkBlock(i, context[i])])

Indent == [i \in 1..8 |-> " "]

\* the ChatPromptTemplate of _build_runnable_chain, filled in
PromptText(sys, formatted_context, query) ==
    <<"\n">> \o Indent \o <<"System", " ", "instructions:", "\n">>
        \o Indent \o sys \o <<"\n", "\n">>
        \o Indent \o <<"Retrieved", " ", "context:", "\n">>
        \o Indent \o formatted_context \o <<"\n", "\n">>
        \o Indent \o <<"User", " ", "question:", "\n">>
        \o Indent \o query \o <<"\n">> \o Indent

\* An ask that records the user half of the turn before the LLM answers.
AskHistoryEager(h, user_query, generated) ==
    Append(h, DictMessage("user", user_query))

\* What Chatbot.ask does to MemoryManager.history: nothing.  The Chatbot
\* holds no MemoryManager and ask calls neither add_turn nor update_summary.
\* `generated` tells whether the LLM has answered.
AskHistory(h, user_query, generated) == h

\* An exception of self.chain.invoke leaves ask: there is no try block.
AskRaises(step_failed) == step_failed

\* Chatbot.ask: the chain retrieve_docs | format_context | prompt | llm.
\* Retrieval and the LLM either answer or raise.
ask(user_query) ==
    LET call == [NoCall EXCEPT !.op = "ask", !.query = user_query,
                               !.entry_history = history,
                               !.entry_summary = summary,
                               !.retrievals = 1]
    IN  /\ UNCHANGED <<window_size, token_limit, summary, system_prompt, log,
                       pure, nTurns, nSummaries>>
        /\ \/ \* self.rag.query raises
              /\ history' = AskHistory(history, user_query, FALSE)
              /\ last' = [call EXCEPT !.retrieval_failed = TRUE,
                                      !.raised = AskRaises(TRUE)]
           \/ \E context \in RetrievalResults :
                LET formatted_context == format_context(context)
                    prompt == PromptText(system_prompt, formatted_context, user_query)
                    sent == [call EXCEPT !.retrieved = context,
                                         !.context = formatted_context,
                                         !.sent = prompt,
                                         !.llm_calls = 1]
                IN  \/ \* self.llm raises
                       /\ history' = AskHistory(history, user_query, FALSE)
                       /\ last' = [sent EXCEPT !.generation_failed = TRUE,
                                               !.raised = AskRaises(TRUE)]
                    \/ \E content \in ChatResponses :
                         /\ history' = AskHistory(history, user_query, TRUE)
                         /\ last' = [sent EXCEPT !.ret_none = FALSE,
                                                 !.ret = content]

\* ----------------------------------------------------------------- Chunker
\* A publication dict.  has_id tells whether it has an "id" key.  Its
\* description is given by the pieces RecursiveCharacterTextSplitter cuts it
\* into (none for an empty description).
PubIds == { <<"p1">>, <<"p2">> }
Descriptions == { <<>>, << <<"s">>, <<"t">> >> }
Publications ==
    [has_id : {TRUE}, id : PubIds, description : Descriptions]
        \cup [has_id : {FALSE}, id : {<<>>}, description : Descriptions]

\* The lists given to ingest_publications: at most MaxPubs publications, no
\* two of them with the same "id" value.
PublicationLists ==
    { ps \in UNION { [1..n -> Publications] : n \in 0..MaxPubs } :
        \A i, j \in 1..Len(ps) :
            (i # j /\ ps[i].has_id /\ ps[j].has_id) => ps[i].id # ps[j].id }

\* pub.get("id", "unknown")
PubId(pub) == IF pub.has_id THEN pub.id ELSE <<"unknown">>

\* self.text_splitter.split_text(description)
split_text(description) == description

\* f"{pub_id}_{i}" for the i-th (0-based) chunk of the publication
ChunkId(pub_id, i) == pub_id \o <<"_">> \o Dec(i)

\* A metadata mapping is a set of <<key, value>> pairs.
EmptyMapping == {}

\* the chunks of one publication (inner loop of split_publications)
PublicationChunks(pub) ==
    LET chunks == split_text(pub.description)
    IN  [k \in 1..Len(chunks) |->
            [content |-> chunks[k],
             metadata |-> { <<"id", PubId(pub)>>,
                            <<"chunk_id", ChunkId(PubId(pub), k - 1)>> }]]

\* Chunker.split_publications
RECURSIVE split_publications(_)
split_publications(publications) ==
    IF publications = <<>> THEN <<>>
    ELSE PublicationChunks(Head(publications))
            \o split_publications(Tail(publications))

\* metadata.get('chunk_id')
MetadataChunkId(metadata) ==
    (CHOOSE kv \in metadata : kv[1] = "chunk_id")[2]

\* ---------------------------------------------------------- VectorDatabase
\* EmbeddingService.embed_documents / embed_query: one vector per text
Embed(text) == <<"vec">> \o text

StoreIds(st) == { r.id : r \in st }

HasDuplicates(seq) == \E i, j \in 1..Len(seq) : i # j /\ seq[i] = seq[j]

\* What collection.add does with a batch: "ValueError" for an empty batch,
\* "DuplicateIDError" for an id that occurs twice in the batch, "none" else.
AddError(chunk_ids) ==
    IF chunk_ids = <<>> THEN "ValueError"
    ELSE IF HasDuplicates(chunk_ids) THEN "DuplicateIDError"
    ELSE "none"

\* VectorDatabase.add_chunks = collection.add: the records whose id is not
\* in the collection are inserted, a record whose id is there is left as it
\* is (add does not update).
add_chunks(st, chunk_ids, documents, metadatas, embeddings) ==
    st \cup { [id |-> chunk_ids[k], document |-> documents[k],
               metadata |-> metadatas[k], embedding |-> embeddings[k]] :
                k \in { n \in 1..Len(chunk_ids) : chunk_ids[n] \notin StoreIds(st) } }

\* ------------------------------------------------------------- RAGPipeline
NoApp ==
    [op |-> "none", raised |-> "none", ret_none |-> TRUE, ret_count |-> 0,
     publications |-> <<>>, repeated |-> FALSE, chunks |-> <<>>,
     chunker_calls |-> 0, embed_calls |-> 0, add_calls |-> 0,
     search_calls |-> 0, entry_store |-> {}, query |-> <<>>, top_k |-> 0,
     documents |-> <<>>, has_metadatas |-> FALSE, metadatas |-> <<>>,
     has_distances |-> FALSE, distances |-> <<>>, result |-> <<>>,
     config |-> [is_mapping |-> FALSE, has_role |-> FALSE, role |-> <<>>,
                 sections |-> <<>>],
     model |-> "", env_key |-> FALSE, client |-> "", prompt |-> <<>>,
     owns_memory |-> FALSE]

\* An ingest that has no early return for an empty collection.
IngestSkipsNever(publications) == FALSE

\* line 69: `if not publications:`
IngestSkips(publications) == publications = <<>>

\* RAGPipeline.ingest_publications.  It returns None on every path.
ingest_publications(publications) ==
    LET call == [NoApp EXCEPT !.op = "ingest",
                              !.publications = publications,
                              !.repeated = (app.op = "ingest"
                                            /\ app.publications = publications),
                              !.entry_store = store]
        chunks == split_publications(publications)
        texts == [k \in 1..Len(chunks) |-> chunks[k].content]
        metadatas == [k \in 1..Len(chunks) |-> chunks[k].metadata]
        ids == [k \in 1..Len(chunks) |-> MetadataChunkId(metadatas[k])]
        embeddings == [k \in 1..Len(texts) |-> Embed(texts[k])]
        called == [call EXCEPT !.chunks = chunks, !.chunker_calls = 1,
                               !.embed_calls = 1, !.add_calls = 1]
    IN  IF IngestSkips(publications)
        THEN /\ app' = call
             /\ store' = store
        ELSE IF AddError(ids) # "none"
        THEN /\ app' = [called EXCEPT !.raised = AddError(ids)]
             /\ store' = store
        ELSE /\ app' = called
             /\ store' = add_chunks(store, ids, texts, metadatas, embeddings)

\* The cosine distance, in tenths, of a stored record from the query vector.
\* The embedding model is not part of the program: any fixed distance that
\* tells the records apart stands for it.
Distance(r) ==
    (IF r.metadata = EmptyMapping THEN 0
     ELSE LET pub == (CHOOSE kv \in r.metadata : kv[1] = "id")[2]
          IN  IF pub = <<"p1">> THEN 0 ELSE IF pub = <<"p2">> THEN 4 ELSE 8)
    + (IF r.id[Len(r.id)] = "0" THEN 0 ELSE 2)

\* the records of the collection by increasing distance
RECURSIVE ByDistance(_)
ByDistance(st) ==
    IF st = {} THEN <<>>
    ELSE LET nearest == CHOOSE r \in st : \A o \in st : Distance(r) <= Distance(o)
         IN  <<nearest>> \o ByDistance(st \ {nearest})

\* VectorDatabase.query_by_vector = collection.query(n_results=top_k): the
\* top_k nearest records, fewer when the collection holds fewer.
query_by_vector(st, top_k) ==
    SubSeq(ByDistance(st), 1, Min(top_k, Cardinality(st)))

\* A similarity that forgets the `1.0 -`.
SimilarityOfDistance(distance) == distance

\* line 126: 1.0 - distances[i], in tenths
Similarity(distance) == 10 - distance

\* lines 123-128: the dict built for docs[i]
FormattedResult(content, has_metadatas, metadatas, has_distances, distances, i) ==
    [content |-> content,
     metadata |-> IF has_metadatas /\ i <= Len(metadatas) THEN metadatas[i]
                  ELSE EmptyMapping,
     similarity_none |-> ~(has_distances /\ i <= Len(distances)),
     similarity |-> IF has_distances /\ i <= Len(distances)
                    THEN Similarity(distances[i]) ELSE 0]

\* RAGPipeline.query.  The store answers with the documents of the nearest
\* records; its "metadatas" and "distances" lists may be absent from the
\* response or shorter than the documents list.
query(query_text, top_k) ==
    \E found \in {query_by_vector(store, top_k)} :
    \E has_metadatas, has_distances \in BOOLEAN :
    \E n_metadatas, n_distances \in 0..Len(found) :
    \E docs \in {[k \in 1..Len(found) |-> found[k].document]} :
    \E metadatas \in {[k \in 1..n_metadatas |-> found[k].metadata]} :
    \E distances \in {[k \in 1..n_distances |-> Distance(found[k])]} :
        /\ has_metadatas \/ n_metadatas = 0
        /\ has_distances \/ n_distances = 0
        /\ app' = [NoApp EXCEPT
                     !.op = "query", !.query = query_text,
                     !.top_k = top_k, !.entry_store = store,
                     !.embed_calls = 1, !.search_calls = 1,
                     !.documents = docs,
                     !.has_metadatas = has_metadatas,
                     !.metadatas = metadatas,
                     !.has_distances = has_distances,
                     !.distances = distances,
                     !.ret_none = FALSE,
                     !.result =
                        [i \in 1..Len(docs) |->
                            FormattedResult(docs[i], has_metadatas, metadatas,
                                            has_distances, distances, i)]]
        /\ store' = store

\* ---------------------------------------------------------- prompt_builder
\* str.lower() of a word (an atom)
LowerAtom(a) ==
    CASE a = "A" -> "a"
      [] a = "An" -> "an"
      [] a = "QUIT" -> "quit"
      [] a = "Exit" -> "exit"
      [] OTHER -> a

\* lowercase_first_char: only the first character changes; every word of
\* the inputs has a lower-case tail
lowercase_first_char(text) ==
    IF text = <<>> THEN text ELSE <<LowerAtom(Head(text))>> \o Tail(text)

\* The optional sections in the order build_system_prompt_from_config reads
\* them, each with its lead-in.
SectionKeys == <<"instruction", "output_constraints", "style_or_tone", "output_format">>

LeadIn(key) ==
    CASE key = "instruction" -> <<"Your", " ", "Instruction:">>
      [] key = "output_constraints" ->
            <<"Follow", " ", "these", " ", "important", " ", "guidelines:">>
      [] key = "style_or_tone" -> <<"Communication", " ", "style:">>
      [] key = "output_format" -> <<"Response", " ", "formatting:">>

\* A section value of a config: absent, a string, or a list of strings.
AbsentValue == [kind |-> "absent", text |-> <<>>, items |-> <<>>]
StrValue(text) == [kind |-> "str", text |-> text, items |-> <<>>]
ListValue(items) == [kind |-> "list", text |-> <<>>, items |-> items]

\* `if value := config.get(key)`: None, "" and [] are falsy
Truthy(value) ==
    \/ value.kind = "str" /\ value.text # <<>>
    \/ value.kind = "list" /\ value.items # <<>>

\* format_prompt_section
format_prompt_section(lead_in, value) ==
    lead_in \o <<"\n">>
        \o (IF value.kind = "list"
            THEN Join(<<"\n">>, [k \in 1..Len(value.items) |->
                                    <<"-", " ">> \o value.items[k]])
            ELSE value.text)

\* the prompt_parts the sections from position n on append
RECURSIVE SectionParts(_, _)
SectionParts(sections, n) ==
    IF n > Len(SectionKeys) THEN <<>>
    ELSE (IF Truthy(sections[n])
          THEN <<format_prompt_section(LeadIn(SectionKeys[n]), sections[n])>>
          ELSE <<>>)
         \o SectionParts(sections, n + 1)

\* The config values Chatbot is constructed with: a mapping with or without
\* a role, or the string "" that initialize_chatbot passes when the YAML
\* file has no chatbot_prompt.
RoleTexts == { <<>>, <<" ">>, <<"A", " ", "helper">>, <<" ", "An", " ", "expert", "\n">> }
InstructionValues ==
    { AbsentValue, StrValue(<<>>), StrValue(<<"Answer", " ", "briefly.">>),
      ListValue(<< <<"Cite.">>, <<"Be", " ", "brief.">> >>) }
OtherValues == { AbsentValue, StrValue(<<"Plain.">>) }
Configs ==
    { [is_mapping |-> TRUE, has_role |-> h, role |-> r, sections |-> <<i, c, t, f>>] :
        h \in BOOLEAN, r \in RoleTexts, i \in InstructionValues,
        c \in OtherValues, t \in {AbsentValue}, f \in {AbsentValue} }
    \cup { [is_mapping |-> FALSE, has_role |-> FALSE, role |-> <<>>,
            sections |-> <<AbsentValue, AbsentValue, AbsentValue, AbsentValue>>] }

\* What build_system_prompt_from_config raises: "".get is an AttributeError,
\* a mapping without a truthy role is the documented ValueError.
BuildError(config) ==
    IF ~config.is_mapping THEN "AttributeError"
    ELSE IF ~config.has_role \/ config.role = <<>> THEN "ValueError"
    ELSE "none"

\* A prompt whose identity sentence is left out.
SystemPromptWithoutIdentity(config) ==
    Join(<<"\n", "\n">>, SectionParts(config.sections, 1))

\* build_system_prompt_from_config, when it raises nothing
build_system_prompt_from_config(config) ==
    Join(<<"\n", "\n">>,
         << <<"You", " ", "are", " ">> \o lowercase_first_char(Strip(config.role)) >>
            \o SectionParts(config.sections, 1))

NoCli ==
    [pc |-> "idle", op |-> "none", line |-> <<>>, reads |-> 0, asks |-> 0,
     asks_before |-> 0, asked |-> FALSE, reported |-> FALSE,
     after_error |-> FALSE]

NoChatbot == [constructed |-> FALSE, built_prompt |-> <<>>, builds |-> 0]

\* Chatbot.__init__(rag_pipeline, system_prompt_config, llm_client)
construct(config) ==
    /\ ~boot.constructed
    /\ IF BuildError(config) # "none"
       THEN /\ app' = [NoApp EXCEPT !.op = "construct", !.config = config,
                                    !.raised = BuildError(config)]
            /\ UNCHANGED <<system_prompt, boot>>
       ELSE /\ system_prompt' = build_system_prompt_from_config(config)
            /\ boot' = [constructed |-> TRUE,
                        built_prompt |-> build_system_prompt_from_config(config),
                        builds |-> boot.builds + 1]
            /\ app' = [NoApp EXCEPT !.op = "construct", !.config = config,
                                    !.prompt = build_system_prompt_from_config(config)]
    /\ UNCHANGED <<window_size, token_limit, history, summary, log, pure,
                   nTurns, nSummaries, last, store, cli>>

\* -------------------------------------------------------------------- llms
available_models == {"gemini-1.5-flash", "gemini-1.5-pro", "llama3-8b-8192"}

\* The model names get_llm is called with.
ModelNames == available_models \cup {"gemini-2.5-flash", "gpt-4"}

\* What the `raise ValueError(f"... {available_models.keys()}")` statement
\* raises: available_models is a list, so evaluating the message fails with
\* AttributeError before any ValueError is built.
InvalidModelError == "AttributeError"

\* get_llm's failure: load_env asserts GOOGLE_API_KEY for every model, then
\* the membership test.
GetLlmError(model, env_key) ==
    IF ~env_key THEN "AssertionError"
    ELSE IF model \notin available_models THEN InvalidModelError
    ELSE "none"

\* the client class get_llm returns
LlmClient(model) ==
    IF model \in {"gemini-1.5-flash", "gemini-1.5-pro"}
    THEN "ChatGoogleGenerativeAI"
    ELSE "ChatGroq"

\* get_llm is called to make the llm_client a Chatbot is constructed with.
get_llm(model, env_key) ==
    /\ ~boot.constructed
    /\ app' = [NoApp EXCEPT
                 !.op = "get_llm", !.model = model, !.env_key = env_key,
                 !.raised = GetLlmError(model, env_key),
                 !.ret_none = GetLlmError(model, env_key) # "none",
                 !.client = IF GetLlmError(model, env_key) = "none"
                            THEN LlmClient(model) ELSE ""]
    /\ UNCHANGED <<memVars, last, store, cli, boot>>

\* -------------------------------------------------------------------- main
\* the model initialize_chatbot asks get_llm for
RequestedModel == "gemini-2.5-flash"

\* the keyword arguments Chatbot.__init__ declares, and those
\* initialize_chatbot passes
ChatbotInitParams == {"rag_pipeline", "system_prompt_config", "llm_client"}
InitializeKwargs == {"rag_pipeline", "system_prompt_config", "llm_client", "memory_manager"}

\* config.get("chatbot_prompt", ""): the mapping of the YAML file, or ""
PromptConfigs ==
    { c \in Configs : ~c.is_mapping
                      \/ (c.role \in {<<>>, <<"A", " ", "helper">>}
                          /\ \A k \in 1..Len(c.sections) : c.sections[k] = AbsentValue) }

\* The first statement of initialize_chatbot that raises.
InitializeError(config, env_key) ==
    IF GetLlmError(RequestedModel, env_key) # "none"
    THEN GetLlmError(RequestedModel, env_key)
    ELSE IF ~(InitializeKwargs \subseteq ChatbotInitParams) THEN "TypeError"
    ELSE BuildError(config)

initialize_chatbot(config, env_key) ==
    /\ ~boot.constructed
    /\ IF InitializeError(config, env_key) # "none"
       THEN /\ app' = [NoApp EXCEPT !.op = "initialize_chatbot",
                                    !.config = config, !.env_key = env_key,
                                    !.model = RequestedModel,
                                    !.raised = InitializeError(config, env_key)]
            /\ UNCHANGED <<system_prompt, boot>>
       ELSE /\ system_prompt' = build_system_prompt_from_config(config)
            /\ boot' = [constructed |-> TRUE,
                        built_prompt |-> build_system_prompt_from_config(config),
                        builds |-> boot.builds + 1]
            /\ app' = [NoApp EXCEPT !.op = "initialize_chatbot",
                                    !.config = config, !.env_key = env_key,
                                    !.model = RequestedModel,
                                    !.ret_none = FALSE,
                                    !.client = LlmClient(RequestedModel),
                                    !.prompt = build_system_prompt_from_config(config)]
    /\ UNCHANGED <<window_size, token_limit, history, summary, log, pure,
                   nTurns, nSummaries, last, store, cli>>

\* --------------------------------------------------------------------- cli
\* str.lower() of a text
Lower(text) == [k \in 1..Len(text) |-> LowerAtom(text[k])]

ExitWords == { <<"exit">>, <<"quit">> }

\* The lines typed at the "You: " prompt.
CliLines ==
    { <<"exit">>, <<" ", "QUIT", " ">>, <<>>, <<" ">>, <<"a">>,
      <<"exit", " ", "now">> }

\* An exit test that compares the line as typed.
CliExitsAsTyped(user_input) == user_input \in ExitWords

\* user_input.lower() in ["exit", "quit"]
CliExits(user_input) == Lower(user_input) \in ExitWords

\* run_cli up to its loop: the banner is printed
run_cli ==
    /\ boot.constructed
    /\ cli.pc = "idle"
    /\ cli' = [cli EXCEPT !.pc = "running"]
    /\ UNCHANGED <<memVars, last, store, app, boot>>

\* One iteration of the loop of run_cli, input() returning `line`.
cli_line(line) ==
    /\ cli.pc = "running"
    /\ cli.reads < MaxLines
    /\ \E user_input \in {Strip(line)} :
       \E read \in {[cli EXCEPT !.op = "line", !.line = line,
                                !.reads = cli.reads + 1,
                                !.asks_before = cli.asks,
                                !.asked = FALSE, !.reported = FALSE,
                                !.after_error = cli.asked /\ cli.reported]} :
          \/ /\ CliExits(user_input)
             /\ cli' = [read EXCEPT !.pc = "exited"]
             /\ UNCHANGED <<memVars, last, store, app, boot>>
          \/ /\ ~CliExits(user_input)
             /\ user_input = <<>>
             /\ cli' = read
             /\ UNCHANGED <<memVars, last, store, app, boot>>
          \/ /\ ~CliExits(user_input)
             /\ user_input # <<>>
             /\ ask(user_input)
             /\ cli' = [read EXCEPT !.asks = cli.asks + 1, !.asked = TRUE,
                                    !.reported = last'.raised]
             /\ UNCHANGED <<store, app, boot>>

\* input() raises KeyboardInterrupt: sys.exit(0)
cli_interrupt ==
    /\ cli.pc = "running"
    /\ cli' = [cli EXCEPT !.pc = "exited", !.op = "interrupt",
                          !.asks_before = cli.asks, !.asked = FALSE,
                          !.reported = FALSE, !.after_error = FALSE]
    /\ UNCHANGED <<memVars, last, store, app, boot>>

\* input() raises EOFError: `except Exception` prints it and the loop goes on
cli_input_error ==
    /\ cli.pc = "running"
    /\ cli.reads < MaxLines
    /\ cli' = [cli EXCEPT !.op = "eof", !.line = <<>>,
                          !.reads = cli.reads + 1,
                          !.asks_before = cli.asks, !.asked = FALSE,
                          !.reported = TRUE, !.after_error = FALSE]
    /\ UNCHANGED <<memVars, last, store, app, boot>>

\* ------------------------------------------------------------------ claims
IsPrefix(p, t) == Len(p) <= Len(t) /\ SubSeq(t, 1, Len(p)) = p

IsInfix(p, t) ==
    \E i \in 0..(Len(t) - Len(p)) : SubSeq(t, i + 1, i + Len(p)) = p

Drop(h, k) == SubSeq(h, k + 1, Len(h))

Fits(h) == count_tokens(messages_to_string(h)) <= token_limit

\* the messages of a sequence of (user, assistant) pairs, in order
RECURSIVE PairMessages(_)
PairMessages(pairs) ==
    IF pairs = <<>> THEN <<>>
    ELSE <<DictMessage("user", pairs[1][1]), DictMessage("assistant", pairs[1][2])>>
            \o PairMessages(Tail(pairs))

\* C1: after n add_turn calls and no update_summary, the history is exactly
\* the min(n, window_size) most recent pairs in call order, so it never holds
\* more than 2 * window_size messages.
C1_SlidingWindow ==
    pure =>
        /\ Len(log) = nTurns
        /\ history = PairMessages(Drop(log, Len(log) - Min(Len(log), window_size)))
        /\ Len(history) <= 2 * window_size

\* window_size + 1 turns were added: 2 * window_size messages are kept and
\* the first pair is gone.
C1_Witness ==
    /\ pure
    /\ nTurns = window_size + 1
    /\ Len(history) = 2 * window_size
    /\ history[1] = DictMessage("user", log[2][1])
    /\ log[1] # log[2]

\* C2: at every operation boundary the history has even length and
\* alternates user / assistant messages, starting with a user message.
C2_HistoryPaired ==
    /\ Len(history) % 2 = 0
    /\ \A i \in 1..Len(history) :
         history[i].role = (IF i % 2 = 1 THEN "user" ELSE "assistant")

\* C3: the summary before a call is a prefix of the summary after it, and
\* add_turn leaves it as it is.
C3_SummaryAppendOnly ==
    [][ /\ IsPrefix(summary, summary')
        /\ (last'.op = "add_turn" => summary' = summary) ]_vars

\* a second summarization has extended a non-empty summary
C3_Witness ==
    /\ last.op = "update_summary"
    /\ last.entry_summary # <<>>
    /\ Len(summary) > Len(last.entry_summary)

\* C4: when update_summary invoked the LLM and got an answer, the history
\* is empty on return, the summary is the old summary extended by the
\* returned fragment, and the fragment is what the call returns.
C4_SummarizationClears ==
    (last.op = "update_summary" /\ last.llm_calls = 1 /\ ~last.raised) =>
        /\ history = <<>>
        /\ ~last.ret_none
        /\ summary = last.entry_summary \o <<"\n">> \o last.ret \o <<"\n">>
        /\ summary # last.entry_summary

\* a summarization of a non-empty window returned a non-empty fragment
C4_Witness ==
    /\ last.op = "update_summary"
    /\ last.llm_calls = 1
    /\ ~last.raised
    /\ last.entry_history # <<>>
    /\ last.ret # <<>>

\* C5: trimming drops messages from the oldest end only, one at a time, and
\* stops as soon as the rest fits token_limit or 2 messages are left; the
\* transcript sent to the LLM renders that suffix; nothing is dropped when
\* the history fits on entry.
C5_TrimSuffix ==
    last.op = "update_summary" =>
        LET h == last.entry_history
            t == last.trimmed
            k == Len(h) - Len(t)
        IN  /\ k >= 0
            /\ t = Drop(h, k)
            /\ Fits(t) \/ (Len(t) = 2 /\ t = Drop(h, Len(h) - 2))
            /\ \A j \in 0..(k - 1) : ~Fits(Drop(h, j)) /\ Len(h) - j > 2
            /\ Fits(h) => k = 0
            /\ last.llm_calls = 1 => last.sent = messages_to_string(t)

\* trimming dropped a single message and stopped with 3 messages that fit
C5_Witness ==
    /\ last.op = "update_summary"
    /\ Len(last.entry_history) - Len(last.trimmed) = 1
    /\ Len(last.trimmed) = 3
    /\ Fits(last.trimmed)

\* C6: update_summary skips exactly when no message is left after trimming:
\* then it returns None, does not invoke the LLM and leaves the summary
\* alone; otherwise it invokes the LLM exactly once.
C6_SkipOnlyWhenEmpty ==
    last.op = "update_summary" =>
        /\ last.trimmed = <<>> =>
             /\ last.llm_calls = 0
             /\ last.ret_none
             /\ ~last.raised
             /\ summary = last.entry_summary
        /\ last.trimmed # <<>> => last.llm_calls = 1

\* update_summary skipped on a window that an earlier summarization emptied
C6_Witness ==
    /\ last.op = "update_summary"
    /\ last.trimmed = <<>>
    /\ last.ret_none
    /\ nSummaries >= 1

\* C7: after a successful ask the newest pair of the history is the query
\* and the returned response, or the pair has gone into the summary.
C7_AskRecordsTurn ==
    (last.op = "ask" /\ ~last.raised) =>
        \/ /\ Len(history) >= 2
           /\ history[Len(history) - 1] = DictMessage("user", last.query)
           /\ history[Len(history)] = DictMessage("assistant", last.ret)
        \/ summary # last.entry_summary

\* C8: an ask in which retrieval or generation fails raises, and leaves the
\* history and the summary as they were before the call.
C8_FailedAskLeavesMemory ==
    (last.op = "ask" /\ (last.retrieval_failed \/ last.generation_failed)) =>
        /\ last.raised
        /\ last.ret_none
        /\ history = last.entry_history
        /\ summary = last.entry_summary

\* generation failed in an ask made while the memory held a turn
C8_Witness ==
    /\ last.op = "ask"
    /\ last.generation_failed
    /\ last.raised
    /\ history # <<>>

NoChunksPlaceholder ==
    <<"No", " ", "relevant", " ", "chunks", " ", "retrieved">>

\* C9: when retrieval answers, ask invokes the LLM; with no chunks the
\* context holds the "No relevant chunks retrieved" placeholder, with n >= 1
\* chunks it holds the blocks Chunk 1 .. Chunk n in retrieval order.
C9_ContextBlocks ==
    (last.op = "ask" /\ ~last.retrieval_failed) =>
        /\ last.llm_calls = 1
        /\ last.retrieved = <<>> => IsInfix(NoChunksPlaceholder, last.context)
        /\ last.retrieved # <<>> =>
             last.context =
                Join(<<"\n", "\n">>,
                     [i \in 1..Len(last.retrieved) |->
                        <<"Chunk", " ">> \o Dec(i) \o <<":", "\n">>
                            \o ChunkRepr(last.retrieved[i])])

\* the message as the claimed transcript tags it
TaggedByRole(m) ==
    [type |-> IF m.role = "user" THEN "HumanMessage" ELSE "AIMessage",
     role |-> m.role, content |-> m.content]

\* C10: get_combined_context is the summary (or 'No summary yet.') followed
\* by a transcript with user messages as numbered USER questions, assistant
\* messages as ASSISTANT, and a separator line before each user message
\* after the first.
C10_ContextTaggedByRole ==
    get_combined_context(summary, history) =
        <<"Conversation", " ", "Summary:", "\n">>
            \o (IF summary = <<>> THEN <<"No", " ", "summary", " ", "yet.">>
                ELSE summary)
            \o <<"\n", "\n", "Recent", " ", "Conversation:", "\n">>
            \o messages_to_string([i \in 1..Len(history) |-> TaggedByRole(history[i])])

NoPipelineCalls ==
    /\ app.chunker_calls = 0
    /\ app.embed_calls = 0
    /\ app.add_calls = 0

\* C11 as claimed: ingest_publications of an empty collection returns the
\* count 0 and calls neither chunker, embedder nor the store's add, and the
\* store is as before.
C11_EmptyIngestReturnsZero ==
    (app.op = "ingest" /\ app.publications = <<>>) =>
        /\ ~app.ret_none
        /\ app.ret_count = 0
        /\ app.raised = "none"
        /\ NoPipelineCalls
        /\ store = app.entry_store

\* C11 as amended: ingest_publications of an empty collection returns None
\* without raising, calls neither chunker, embedder nor the store's add, and
\* the store is as before.
C11_EmptyIngestNoOp ==
    (app.op = "ingest" /\ app.publications = <<>>) =>
        /\ app.ret_none
        /\ app.raised = "none"
        /\ NoPipelineCalls
        /\ store = app.entry_store

\* an empty collection was ingested into a store that holds chunks
C11_Witness ==
    /\ app.op = "ingest"
    /\ app.publications = <<>>
    /\ app.ret_none
    /\ store # {}

\* C12: ingesting the same publications a second time completes without
\* error and leaves the ids of the store, and so its chunk count, as they
\* were after the first ingestion.
C12_ReingestIdempotent ==
    (app.op = "ingest" /\ app.repeated) =>
        /\ app.raised = "none"
        /\ StoreIds(store) = StoreIds(app.entry_store)
        /\ Cardinality(store) = Cardinality(app.entry_store)

\* the chunk ids of the publications from position n on, as C13 states them
RECURSIVE ClaimedIds(_, _)
ClaimedIds(publications, n) ==
    IF n > Len(publications) THEN <<>>
    ELSE [k \in 1..Len(publications[n].description) |->
            PubId(publications[n]) \o <<"_">> \o Dec(k - 1)]
         \o ClaimedIds(publications, n + 1)

\* C13: split_publications gives the chunks of each publication the ids
\* {publication_id}_0, _1, ... in text order, grouped by publication in
\* input order, and no two chunks of the output share an id, also when
\* publications have no id field.
C13_ChunkIdsUnique ==
    (app.op = "ingest" /\ app.chunker_calls = 1) =>
        LET ids == [k \in 1..Len(app.chunks) |->
                        MetadataChunkId(app.chunks[k].metadata)]
        IN  /\ ids = ClaimedIds(app.publications, 1)
            /\ ~HasDuplicates(ids)

\* C14: query embeds once, searches once and never raises; it returns one
\* result per returned document in store order, with the metadata of the
\* response or an empty mapping where the response has none, and similarity
\* 1 - distance or None where the response has no distance; an empty store
\* gives an empty result.
C14_QueryDefaults ==
    app.op = "query" =>
        /\ app.raised = "none"
        /\ app.embed_calls = 1
        /\ app.search_calls = 1
        /\ Len(app.result) = Len(app.documents)
        /\ \A i \in 1..Len(app.documents) :
             LET res == app.result[i]
                 has_m == app.has_metadatas /\ i <= Len(app.metadatas)
                 has_d == app.has_distances /\ i <= Len(app.distances)
             IN  /\ res.content = app.documents[i]
                 /\ res.metadata = (IF has_m THEN app.metadatas[i] ELSE {})
                 /\ res.similarity_none = ~has_d
                 /\ has_d => res.similarity + app.distances[i] = 10
        /\ app.entry_store = {} => app.result = <<>>

\* a response of two documents without metadatas and with one distance
C14_Witness ==
    /\ app.op = "query"
    /\ Len(app.documents) = 2
    /\ ~app.has_metadatas
    /\ app.has_distances
    /\ Len(app.distances) = 1
    /\ app.distances[1] > 0
    /\ app.result[2].similarity_none

\* C15: Chatbot construction fails with the configuration error (the
\* ValueError "Missing required 'role' field.") whenever the role is absent
\* or empty, for any config value including the non-mapping default "";
\* when it succeeds the prompt is built once, starts with "You are ", and
\* stays what the constructor built.
C15_ConstructionValidatesConfig ==
    /\ app.op = "construct" =>
          /\ (\/ ~app.config.is_mapping
              \/ ~app.config.has_role
              \/ app.config.role = <<>>) => app.raised = "ValueError"
          /\ app.raised = "none" =>
                /\ IsPrefix(<<"You", " ", "are", " ">>, system_prompt)
                /\ boot.builds = 1
    /\ boot.constructed => system_prompt = boot.built_prompt

\* C16: in the CLI loop a line that is "exit" or "quit" after strip and
\* lower ends the session without an ask; an empty line is skipped without
\* an ask; any other line makes exactly one ask, of the stripped line; and
\* when that ask raises, the error is reported and the loop keeps running.
C16_CliLoop ==
    cli.op = "line" =>
        IF Lower(Strip(cli.line)) \in ExitWords
        THEN cli.pc = "exited" /\ ~cli.asked /\ cli.asks = cli.asks_before
        ELSE IF Strip(cli.line) = <<>>
        THEN cli.pc = "running" /\ ~cli.asked /\ cli.asks = cli.asks_before
        ELSE /\ cli.asked
             /\ cli.asks = cli.asks_before + 1
             /\ last.op = "ask"
             /\ last.query = Strip(cli.line)
             /\ last.retrievals = 1
             /\ cli.pc = "running"
             /\ cli.reported = last.raised

\* a line is asked right after an iteration whose ask raised and was
\* reported
C16_Witness ==
    /\ cli.op = "line"
    /\ cli.after_error
    /\ cli.asked
    /\ cli.asks = 2

\* C17: get_llm raises ValueError exactly when the model name is not in
\* available_models, and returns a client for every name that is (the API
\* key being set).
C17_GetLlmValidatesModel ==
    (app.op = "get_llm" /\ app.env_key) =>
        /\ (app.raised = "ValueError") <=> (app.model \notin available_models)
        /\ app.model \in available_models =>
              app.raised = "none" /\ ~app.ret_none /\ app.client # ""

\* C18: with a valid prompt configuration and the API key set,
\* initialize_chatbot raises nothing, a Chatbot is constructed, and it owns
\* the MemoryManager it was given.
C18_StartupReachesLoop ==
    (/\ app.op = "initialize_chatbot"
     /\ app.env_key
     /\ BuildError(app.config) = "none") =>
        /\ app.raised = "none"
        /\ boot.constructed
        /\ app.owns_memory

\* ----------------------------------------------------------- specification
Init ==
    /\ window_size \in 1..MaxWindow
    /\ token_limit \in TokenLimits
    /\ history = <<>>
    /\ summary = <<>>
    /\ system_prompt = <<"You", " ", "are", " ", "a", " ", "research", " ", "assistant">>
    /\ log = <<>>
    /\ pure = TRUE
    /\ nTurns = 0
    /\ nSummaries = 0
    /\ last = NoCall
    /\ store = {}
    /\ app = NoApp
    /\ cli = NoCli
    /\ boot = [constructed |-> TRUE, built_prompt |-> system_prompt, builds |-> 1]

AppFrame == UNCHANGED <<store, app, cli, boot>>

Next ==
    \/ (\E u \in UserMessages, a \in AssistantMessages : add_turn(u, a)) /\ AppFrame
    \/ update_summary /\ AppFrame
    \/ (\E q \in UserMessages : ask(q)) /\ AppFrame

Spec == Init /\ [][Next]_vars

\* Ingestion and retrieval over one collection, with a fresh MemoryManager.
InitRag ==
    /\ Init
    /\ window_size = 1
    /\ token_limit = 2500

NextRag ==
    \/ (\E ps \in PublicationLists : ingest_publications(ps))
            /\ UNCHANGED <<memVars, last, cli, boot>>
    \/ (\E q \in QueryTexts, top_k \in TopKs : query(q, top_k))
            /\ UNCHANGED <<memVars, last, cli, boot>>

SpecRag == InitRag /\ [][NextRag]_vars

\* Start-up: the Chatbot is constructed from a config, then used.
InitApp ==
    /\ window_size = 6
    /\ token_limit = 2500
    /\ history = <<>>
    /\ summary = <<>>
    /\ system_prompt = <<>>
    /\ log = <<>>
    /\ pure = TRUE
    /\ nTurns = 0
    /\ nSummaries = 0
    /\ last = NoCall
    /\ store = {}
    /\ app = NoApp
    /\ cli = NoCli
    /\ boot = NoChatbot

NextApp ==
    \/ \E config \in Configs : construct(config)
    \/ \E model \in ModelNames, env_key \in BOOLEAN : get_llm(model, env_key)
    \/ \E config \in PromptConfigs, env_key \in BOOLEAN :
          initialize_chatbot(config, env_key)
    \/ run_cli
    \/ \E line \in CliLines : cli_line(line)
    \/ cli_interrupt
    \/ cli_input_error

SpecApp == InitApp /\ [][NextApp]_vars

====
